---- MODULE Spec2Model ----
(***************************************************************************)
(* A model of draugr/numpy_utilities/datasets/splitting.py:                *)
(*   - SplitIndexer (proportional counts, shuffled and seeded index        *)
(*     permutations drawn from the process-wide numpy generator),          *)
(*   - train_valid_test_split (content-hash assignment of items).          *)
(* Floating point values are IEEE-754 binary64 values, kept as a 53 bit    *)
(* mantissa (a sequence of bits, most significant first) and an exponent,  *)
(* so that every rounding step of the code is a rounding step here.        *)
(***************************************************************************)
EXTENDS Integers, Sequences, FiniteSets, TLC

\* ------------------------------------------------------------------------
\* Bounds of the model
\* ------------------------------------------------------------------------
\* largest dataset_length tried by the constructor specification
MaxLen == 55
\* largest weight (training / validation / testing) tried there
MaxWeight == 6

\* largest number of items, over all categories, of one split call
MaxItems == 2
\* number of leading bits varied in the digests of the percentage
\* specification
HashHighBits == 7
\* largest dataset_length of the objects whose indices are shuffled
MaxTotal == 4
\* number of states of the modelled random generator
RngMod == 8

\* ------------------------------------------------------------------------
\* binary64 arithmetic on non-negative values
\* ------------------------------------------------------------------------
\* number of mantissa bits of a binary64
MantBits == 53
\* fractional quotient bits produced by the long division below; enough for
\* the mantissa, a guard bit and the leading zeros of a quotient < 1
DivFracBits == MantBits + 19

\* bits are kept in chunks of this many bits when they are multiplied
ChunkBits == MantBits - 33

\* the w low bits of a natural number, most significant first
BitsW(k, w) == [i \in 1..w |-> (k \div (2 ^ (w - i))) % 2]

RECURSIVE NatOf(_)
\* the natural number written by a sequence of at most 30 bits
NatOf(b) ==
    IF Len(b) = 0 THEN 0
    ELSE IF Len(b) = 1 THEN b[1]
    ELSE LET h == Len(b) \div 2
         IN  NatOf(SubSeq(b, 1, h)) * (2 ^ (Len(b) - h))
                 + NatOf(SubSeq(b, h + 1, Len(b)))

Zeros(k) == [i \in 1..k |-> 0]

\* drop leading zero bits
StripZeros(b) ==
    IF \A i \in 1..Len(b) : b[i] = 0 THEN <<>>
    ELSE LET first == CHOOSE i \in 1..Len(b) :
                          b[i] = 1 /\ \A j \in 1..(i - 1) : b[j] = 0
         IN  SubSeq(b, first, Len(b))

\* the bits of a natural number, most significant first (0 is <<>>)
BitsOf(k) == StripZeros(BitsW(k, 30))

\* the j-th chunk of b counted from its least significant end, as a number
Chunk(b, j) ==
    NatOf(SubSeq(b, IF Len(b) - ChunkBits * (j + 1) + 1 < 1 THEN 1
                    ELSE Len(b) - ChunkBits * (j + 1) + 1,
                 Len(b) - ChunkBits * j))

\* the bits of NatOf(b) * k + c, for at most 60 bits b and k, c < 2^10
MulCarry(b, k, c) ==
    LET t0 == Chunk(b, 0) * k + c
        t1 == Chunk(b, 1) * k + t0 \div (2 ^ ChunkBits)
        t2 == Chunk(b, 2) * k + t1 \div (2 ^ ChunkBits)
    IN  StripZeros(BitsW(t2, 30) \o BitsW(t1 % (2 ^ ChunkBits), ChunkBits)
                       \o BitsW(t0 % (2 ^ ChunkBits), ChunkBits))

AnyOne(b) == \E i \in 1..Len(b) : b[i] = 1

\* the value 0.0
FZero == [m |-> <<>>, e |-> 0]

\* Round a positive value to binary64, round-half-to-even.  The value is
\* NatOf(b) * 2^e plus, when sticky, a non-zero amount below the last bit
\* of b; b has a leading 1.  The result is NatOf(m) * 2^e with Len(m) = 53.
Round53(b, e, sticky) ==
    IF Len(b) <= MantBits
    THEN [m |-> b \o Zeros(MantBits - Len(b)), e |-> e - (MantBits - Len(b))]
    ELSE LET keep  == SubSeq(b, 1, MantBits)
             guard == b[MantBits + 1]
             rest  == sticky \/ AnyOne(SubSeq(b, MantBits + 2, Len(b)))
             up    == guard = 1 /\ (rest \/ keep[MantBits] = 1)
             m0    == IF up THEN MulCarry(keep, 1, 1) ELSE keep
             e0    == e + (Len(b) - MantBits)
         IN  IF Len(m0) > MantBits
             THEN [m |-> SubSeq(m0, 1, MantBits), e |-> e0 + 1]
             ELSE [m |-> m0, e |-> e0]

\* int -> float64 conversion of a natural number given by its bits
FFromBits(b) ==
    LET s == StripZeros(b)
    IN  IF s = <<>> THEN FZero ELSE Round53(s, 0, FALSE)

FFromInt(k) == FFromBits(BitsOf(k))

RECURSIVE Pow2Mod(_, _)
\* 2^i modulo s
Pow2Mod(i, s) ==
    IF i = 0 THEN 1 % s
    ELSE LET h == Pow2Mod(i \div 2, s)
         IN  (((h * h) % s) * (IF i % 2 = 1 THEN 2 ELSE 1)) % s

\* the remainder of the long division r / s after i quotient bits, r < s
DivRem(r, s, i) == (r * Pow2Mod(i, s)) % s

\* the first c bits after the binary point of r / s, for r < s
DivBits(r, s, c) ==
    [i \in 1..c |-> IF 2 * DivRem(r, s, i - 1) >= s THEN 1 ELSE 0]

\* float64 division w / s of two integer-valued floats, s > 0
FDivInt(w, s) ==
    IF w = 0 THEN FZero
    ELSE LET q == BitsOf(w \div s) \o DivBits(w % s, s, DivFracBits)
         IN  Round53(StripZeros(q), 0 - DivFracBits,
                     DivRem(w % s, s, DivFracBits) # 0)

\* drop trailing zero bits
StripTrailingZeros(b) ==
    IF \A i \in 1..Len(b) : b[i] = 0 THEN <<>>
    ELSE LET final == CHOOSE i \in 1..Len(b) :
                          b[i] = 1 /\ \A j \in (i + 1)..Len(b) : b[j] = 0
         IN  SubSeq(b, 1, final)

\* float64 product f * g, for a g of at most 10 significant bits: the exact
\* product is rounded once
FMul(f, g) ==
    IF f.m = <<>> \/ g.m = <<>> THEN FZero
    ELSE LET gs == StripTrailingZeros(g.m)
         IN  Round53(MulCarry(f.m, NatOf(gs), 0),
                     f.e + g.e + (MantBits - Len(gs)), FALSE)

\* float64 product of a float and an integer-valued float k >= 0
FMulInt(f, k) == FMul(f, FFromInt(k))

\* float64 quotient f / g for a g that is a power of two (exact)
FDivPow2(f, g) ==
    IF f.m = <<>> THEN FZero
    ELSE [m |-> f.m, e |-> f.e - (g.e + MantBits - 1)]

\* numpy.floor followed by astype(int), for values below 2^31
FFloor(f) ==
    IF f.m = <<>> THEN 0
    ELSE IF f.e >= 0 THEN NatOf(f.m \o Zeros(f.e))
    ELSE IF 0 - f.e >= MantBits THEN 0
    ELSE NatOf(SubSeq(f.m, 1, MantBits + f.e))

\* f < k for an integer k: a float is below an integer exactly when its
\* floor is
FLessInt(f, k) == FFloor(f) < k

\* ------------------------------------------------------------------------
\* State
\* ------------------------------------------------------------------------
VARIABLES
    rng,        \* state of the process-wide numpy.random generator
    indexer,    \* the SplitIndexer object under observation
    args,       \* the arguments it was constructed with
    last,       \* the last method call: operation, object, split, seed
    ret,        \* the value that call returned
    ref,        \* one earlier seeded call and its result, kept for comparison
    categories,             \* argument of the last train_valid_test_split call
    validation_percentage,  \* its validation_percentage
    testing_percentage,     \* its testing_percentage
    result,                 \* the mapping it returned
    obs,        \* one item of an earlier call and the split it was given
    digest,     \* a digest handed to the percentage computation
    percentage_hash,        \* the pseudo-percentage computed from it
    assigned,   \* the split chosen for it
    raised,     \* the exception the last call ended with, if any
    heap,       \* the list objects, by identity
    data_cat_split,         \* argument of the select_split call
    requested,  \* its split argument
    data,       \* the mapping it returned
    pc,         \* where each concurrent caller stands
    frame       \* the arguments and local variables of each caller

indexerVars == <<rng, indexer, args, last, ret, ref>>
splitVars == <<categories, validation_percentage, testing_percentage, result,
               obs>>
hashVars == <<digest, percentage_hash, assigned>>
selectVars == <<heap, data_cat_split, requested, data>>
raceVars == <<pc, frame>>
vars == <<indexerVars, splitVars, hashVars, selectVars, raceVars, raised>>

Elements(seq) == {seq[i] : i \in 1..Len(seq)}

\* class Split
Training == "training"
Validation == "validation"
Testing == "testing"
Split == {Training, Validation, Testing}

\* Python's None
None == "None"

\* the exceptions a call can end with
NoError == "none"
KeyError == "KeyError"
NotImplementedError == "NotImplementedError"
ZeroDivisionError == "ZeroDivisionError"

\* ------------------------------------------------------------------------
\* SplitIndexer.__init__ and unnormalised
\* ------------------------------------------------------------------------
\* self.normalised_split * num, floored, cast to int
unnormalised(normalised_split, num) ==
    [k \in Split |-> FFloor(FMulInt(normalised_split[k], num))]

\* splits / sum(splits): the weights are integer valued, their sum is exact
Normalise(training, validation, testing) ==
    LET s == training + validation + testing
    IN  [k \in Split |->
            FDivInt(IF k = Training THEN training
                    ELSE IF k = Validation THEN validation ELSE testing, s)]

SplitIndexerInit(dataset_length, training, validation, testing) ==
    LET norm == Normalise(training, validation, testing)
        nums == unnormalised(norm, dataset_length)
    IN  [total_num        |-> dataset_length,
         normalised_split |-> norm,
         training_num     |-> nums[Training],
         validation_num   |-> nums[Validation],
         testing_num      |-> nums[Testing]]

\* no object constructed yet, no call made yet, no call kept yet
NoObject == [total_num |-> -1]
NoArgs == [dataset_length |-> 0, training |-> 0, validation |-> 0, testing |-> 0]
NoCall == [op |-> "none", own |-> FALSE, split |-> None, seed |-> 0,
           again |-> FALSE]
NoRef == [op |-> "none"]

\* indexer = SplitIndexer(dataset_length, training, validation, testing);
\* the all-zero weights are left to the error handling claims
Construct(dataset_length, training, validation, testing) ==
    /\ indexer = NoObject
    /\ training + validation + testing > 0
    /\ indexer' = SplitIndexerInit(dataset_length, training, validation,
                                   testing)
    /\ args' = [dataset_length |-> dataset_length, training |-> training,
                validation |-> validation, testing |-> testing]
    /\ UNCHANGED <<rng, last, ret, ref, splitVars, hashVars, selectVars,
                   raceVars, raised>>

\* 0 / 0 in numpy: a RuntimeWarning is issued and the quotient is nan
FNaN == [m |-> <<>>, e |-> 0, nan |-> TRUE]

\* nan.astype(int): the conversion is undefined in C; the builds of numpy
\* give the smallest 64 bit integer (x86-64) or 0 (aarch64), written here
\* as numerals
NaNAsInt == {"-9223372036854775808", "0"}

\* indexer = SplitIndexer(dataset_length, 0, 0, 0): the sum of the weights is
\* the numpy integer 0, every proportion is 0 / 0 and every count is the cast
\* of floor(nan * dataset_length); nothing is raised
ConstructZeroWeights(dataset_length) ==
    /\ indexer = NoObject
    /\ \E cast \in NaNAsInt :
          indexer' = [total_num        |-> dataset_length,
                      normalised_split |-> [k \in Split |-> FNaN],
                      training_num     |-> cast,
                      validation_num   |-> cast,
                      testing_num      |-> cast]
    /\ args' = [dataset_length |-> dataset_length, training |-> 0,
                validation |-> 0, testing |-> 0]
    /\ raised' = NoError
    /\ UNCHANGED <<rng, last, ret, ref, splitVars, hashVars, selectVars,
                   raceVars>>

\* ------------------------------------------------------------------------
\* train_valid_test_split: the hashed key
\* ------------------------------------------------------------------------
\* the literal of the pattern r"_nohash_.*$"
NoHashTag == <<"_", "n", "o", "h", "a", "s", "h", "_">>
Newline == "\n"

\* the pattern matches at position i of s: the literal, then .* which takes
\* no line break, then $ which holds at the end of s or before a line break
\* that is the last character of s
MatchesAt(s, i) ==
    /\ i + Len(NoHashTag) - 1 <= Len(s)
    /\ SubSeq(s, i, i + Len(NoHashTag) - 1) = NoHashTag
    /\ \A j \in (i + Len(NoHashTag))..Len(s) : s[j] = Newline => j = Len(s)

\* re.sub(r"_nohash_.*$", "", s): the leftmost match is removed; it runs to
\* the end of s, or up to a final line break, which stays
ReSubNoHash(s) ==
    IF \E i \in 1..Len(s) : MatchesAt(s, i)
    THEN LET first == CHOOSE i \in 1..Len(s) :
                          MatchesAt(s, i) /\ \A j \in 1..(i - 1) : ~MatchesAt(s, j)
         IN  SubSeq(s, 1, first - 1)
                 \o (IF s[Len(s)] = Newline THEN <<Newline>> ELSE <<>>)
    ELSE s

\* variant: the key is not stripped
b_rep_unstripped(c, file_name) == c \o file_name

\* bytes(re.sub(r"_nohash_.*$", "", f"{c}{file_name.name}"), "utf8"); the
\* characters are ASCII, one byte each
b_rep(c, file_name) == ReSubNoHash(c \o file_name)

\* bits of a SHA-1 digest, and of the five hexadecimal digits of one entry
\* of the table below
DigestBits == 160
LimbBits == 5 * 4

\* hashlib.sha1(key).hexdigest() for the keys of the model, five hexadecimal
\* digits per entry
Sha1Table ==
    \* sha1('catsa.png') = 2a39e608d8f8849624a8134c20f93b2dbec00886, percentage 25.761
    <<"c", "a", "t", "s", "a", ".", "p", "n", "g">>
        :> <<172958, 395480, 1017929, 402600, 79042, 63803, 187372, 2182>>
    @@
    \* sha1('catsa') = ea0cb4796863669c483aada76c91023006030ab1, percentage 84.818
    <<"c", "a", "t", "s", "a">>
        :> <<958667, 293224, 407145, 804922, 711286, 823554, 196704, 199345>>
    @@
    \* sha1('catsx') = ef4dfd4af9b017d4e4ff157e326c365164038fac, percentage 39.393
    <<"c", "a", "t", "s", "x">>
        :> <<980191, 871161, 721277, 320767, 88035, 158774, 333376, 233388>>
    @@
    \* sha1('catsx\n') = eabe5881baa25a0ebc8a3f301f831c339dbb6b54, percentage 24.619
    <<"c", "a", "t", "s", "x", "\n">>
        :> <<961509, 557498, 664992, 965770, 258817, 1016604, 211419, 748372>>
    @@
    \* sha1('dogsa.png') = e180cc7c1391fcfc872ac47ed5b4c748d3c20b05, percentage 66.958
    <<"d", "o", "g", "s", "a", ".", "p", "n", "g">>
        :> <<923660, 818195, 597967, 821034, 804845, 373959, 298300, 133893>>
    @@
    \* sha1('dogsa') = dc0a35626675b3eb699a7cde458767cbc23c974f, percentage 54.319
    <<"d", "o", "g", "s", "a">>
        :> <<901283, 352870, 482110, 747930, 511460, 362343, 834595, 825167>>
    @@
    \* sha1('dogsx') = e86daac8fef24640a6a344dec4d4a8b5b386aec1, percentage 53.774
    <<"d", "o", "g", "s", "x">>
        :> <<952026, 706814, 992356, 42659, 282092, 316584, 744248, 437953>>
    @@
    \* sha1('dogsx\n') = a6551afa1722202018d202561bc533df1cfeea08, percentage 21.696
    <<"d", "o", "g", "s", "x", "\n">>
        :> <<681297, 719383, 139778, 6354, 9569, 771379, 913871, 977416>>
    @@
    \* sha1('catsa_nohash_1.png') = 780896545a752da22c2c0966a191d32591cf416b, percentage 26.226
    <<"c", "a", "t", "s", "a", "_", "n", "o", "h", "a", "s", "h", "_", "1", ".", "p", "n", "g">>
        :> <<491657, 414810, 479962, 142380, 38506, 102867, 153884, 999787>>
    @@
    \* sha1('catsx_nohash_1') = d49f1a803e680673200a4bf68d216d335f5e9beb, percentage 10.258
    <<"c", "a", "t", "s", "x", "_", "n", "o", "h", "a", "s", "h", "_", "1">>
        :> <<870897, 688190, 426087, 204810, 311144, 860525, 210421, 957419>>
    @@
    \* sha1('catsx_nohash_2') = 61ab4369f85980a08d5d67f05848d0b0a5c00621, percentage 68.972
    <<"c", "a", "t", "s", "x", "_", "n", "o", "h", "a", "s", "h", "_", "2">>
        :> <<400052, 223736, 366602, 36189, 425733, 542928, 723548, 1569>>
    @@
    \* sha1('catsx_nohash_2\n') = 509efe69c50d0465f0c4f8c1ef6a72af95278c7b, percentage 87.044
    <<"c", "a", "t", "s", "x", "_", "n", "o", "h", "a", "s", "h", "_", "2", "\n">>
        :> <<330223, 944581, 53318, 389316, 1018910, 1010290, 719186, 494715>>
    @@
    \* sha1('dogsa_nohash_1.png') = 0b5f4145d68882e3079da46b7346465578c6b87c, percentage 90.058
    <<"d", "o", "g", "s", "a", "_", "n", "o", "h", "a", "s", "h", "_", "1", ".", "p", "n", "g">>
        :> <<46580, 83414, 559150, 198557, 673463, 214598, 350092, 440444>>
    @@
    \* sha1('dogsx_nohash_1') = c4e22eca9cec2549940a8d7a5702542d0fe64741, percentage 67.976
    <<"d", "o", "g", "s", "x", "_", "n", "o", "h", "a", "s", "h", "_", "1">>
        :> <<806434, 969372, 967252, 627722, 579493, 459348, 184574, 411457>>
    @@
    \* sha1('dogsx_nohash_2') = 800ff585bc823951954cc617fc2648c80cffef45, percentage 96.992
    <<"d", "o", "g", "s", "x", "_", "n", "o", "h", "a", "s", "h", "_", "2">>
        :> <<524543, 361916, 533397, 103756, 811391, 796232, 819407, 1044293>>
    @@
    \* sha1('dogsx_nohash_2\n') = 0954dcd530bbc2b5e71db92d94201416ebc43044, percentage 15.723
    <<"d", "o", "g", "s", "x", "_", "n", "o", "h", "a", "s", "h", "_", "2", "\n">>
        :> <<38221, 841008, 769067, 386845, 758489, 270356, 93884, 274500>>
    @@
    \* sha1('k') = 13fbd79c3d390e5d6585a21e11ff5ec1970cff0c, percentage 14.061
    <<"k">>
        :> <<81853, 498749, 233701, 877957, 664033, 130910, 792944, 851724>>
    @@
    \* sha1('k\n') = 141b3ea3f03f5b011095f59a650c8883b9e56b44, percentage 78.944
    <<"k", "\n">>
        :> <<82355, 959472, 259504, 69781, 1005990, 330888, 539550, 355140>>

\* int(hashlib.sha1(b).hexdigest(), 16), as bits
sha1(b) ==
    LET limbs == Sha1Table[b]
    IN  [i \in 1..DigestBits |->
            (limbs[((i - 1) \div LimbBits) + 1]
                \div (2 ^ (LimbBits - 1 - ((i - 1) % LimbBits)))) % 2]

\* ------------------------------------------------------------------------
\* train_valid_test_split: the pseudo-percentage and the split
\* ------------------------------------------------------------------------
\* sys.maxsize is 2^63 - 1
WordBits == 63
MaxSizeBits == [i \in 1..WordBits |-> 1]

\* 100.0
Hundred == 100

\* 100.0 / sys.maxsize: sys.maxsize is converted to the float 2^63
Scale == FDivPow2(FFromInt(Hundred), FFromBits(MaxSizeBits))

\* (digest % (sys.maxsize + 1)) * (100.0 / sys.maxsize)
PercentageHash(d) ==
    FMul(FFromBits(SubSeq(d, DigestBits - WordBits + 1, DigestBits)), Scale)

\* the pseudo-percentage of every key of the table, computed once
PercentageTable ==
    [b \in DOMAIN Sha1Table |-> PercentageHash(sha1(b))] @@ <<>>

\* variant: the two comparisons of the inner test are the wrong way round
SplitOf_swapped(p, validation, testing) ==
    IF FLessInt(p, validation + testing)
    THEN IF FLessInt(p, testing) THEN Validation ELSE Testing
    ELSE Training

\* variant: the outer test is inverted
SplitOf_inverted(p, validation, testing) ==
    IF ~FLessInt(p, validation + testing)
    THEN IF FLessInt(p, testing) THEN Testing ELSE Validation
    ELSE Training

\* variant: the inner test is made on the validation percentage, so that
\* Testing is given what is left below the sum
SplitOf_validation_first(p, validation, testing) ==
    IF FLessInt(p, validation + testing)
    THEN IF FLessInt(p, validation) THEN Validation ELSE Testing
    ELSE Training

\* the nested test on percentage_hash
SplitOf(p, validation, testing) ==
    IF FLessInt(p, validation + testing)
    THEN IF FLessInt(p, testing) THEN Testing ELSE Validation
    ELSE Training

RECURSIVE ItemLoop_prepending(_, _, _, _, _)
\* variant: the items are put in front of the lists
ItemLoop_prepending(c, vs, validation, testing, lists) ==
    IF vs = <<>> THEN lists
    ELSE LET file_name == Head(vs)
             p == PercentageTable[b_rep(c, file_name)]
         IN  ItemLoop_prepending(c, Tail(vs), validation, testing,
                [lists EXCEPT ![SplitOf(p, validation, testing)] =
                                  <<file_name>> \o @])

RECURSIVE ItemLoop(_, _, _, _, _)
\* for file_name in vs: hash it and append it to one of the three lists
ItemLoop(c, vs, validation, testing, lists) ==
    IF vs = <<>> THEN lists
    ELSE LET file_name == Head(vs)
             p == PercentageTable[b_rep(c, file_name)]
         IN  ItemLoop(c, Tail(vs), validation, testing,
                [lists EXCEPT ![SplitOf(p, validation, testing)] =
                                  Append(@, file_name)])

\* train_valid_test_split(cats, validation_percentage=validation,
\* testing_percentage=testing); an item is modelled by its name
train_valid_test_split(cats, validation, testing) ==
    [c \in DOMAIN cats |->
        ItemLoop(c, cats[c], validation, testing, [k \in Split |-> <<>>])]

\* ------------------------------------------------------------------------
\* Calls of train_valid_test_split
\* ------------------------------------------------------------------------
\* category labels, item names and (validation, testing) percentages tried
CategoryLabels == {<<"c", "a", "t", "s">>, <<"d", "o", "g", "s">>}
ItemNames ==
    {<<"a", ".", "p", "n", "g">>,
     <<"a">> \o NoHashTag \o <<"1", ".", "p", "n", "g">>,
     <<"x">> \o NoHashTag \o <<"1">>,
     <<"x">> \o NoHashTag \o <<"2">>,
     <<"x">> \o NoHashTag \o <<"2", Newline>>}
ThresholdPairs == {<<15, 0>>, <<30, 0>>, <<20, 25>>}

NoObs == [c |-> <<>>, kept |-> FALSE]

\* no split call made yet, no digest classified yet
SplitIdle ==
    /\ categories = <<>>
    /\ validation_percentage = 0
    /\ testing_percentage = 0
    /\ result = <<>>
    /\ obs = NoObs
HashIdle ==
    /\ digest = <<>>
    /\ percentage_hash = FZero
    /\ assigned = None
IndexerIdle ==
    /\ rng = 0
    /\ indexer = NoObject
    /\ args = NoArgs
    /\ last = NoCall
    /\ ret = <<>>
    /\ ref = NoRef
    /\ raised = NoError

\* the two concurrent callers of the seeded method
Callers == {1, 2}
NoFrame == [split |-> None, seed |-> 0, value |-> <<>>, intruded |-> FALSE]

\* no select_split call made yet, no concurrent caller started yet
SelectIdle ==
    /\ heap = <<>>
    /\ data_cat_split = <<>>
    /\ requested = None
    /\ data = <<>>
RaceIdle ==
    /\ pc = [c \in Callers |-> "idle"]
    /\ frame = [c \in Callers |-> NoFrame]

\* the list of a per-split mapping that holds the item
ListOf(lists, file_name) ==
    CHOOSE k \in Split : file_name \in Elements(lists[k])

RECURSIVE TotalItems(_, _)
\* number of items of the categories cs of a mapping
TotalItems(cats, cs) ==
    IF cs = {} THEN 0
    ELSE LET c == CHOOSE x \in cs : TRUE
         IN  Len(cats[c]) + TotalItems(cats, cs \ {c})

\* result = train_valid_test_split(input, validation_percentage=validation,
\* testing_percentage=testing).  One item of one call is kept, with the
\* split it was given, for comparison with later calls.
Call(input, validation, testing) ==
    /\ categories' = input
    /\ validation_percentage' = validation
    /\ testing_percentage' = testing
    /\ result' = train_valid_test_split(input, validation, testing)
    /\ IF obs.kept
       THEN obs' = [obs EXCEPT !.old = TRUE]
       ELSE \/ obs' = obs
            \/ \E c \in DOMAIN input : \E i \in 1..Len(input[c]) :
                  obs' = [c |-> c, kept |-> TRUE,
                          stripped |-> ReSubNoHash(input[c][i]),
                          validation |-> validation, testing |-> testing,
                          split |-> ListOf(result'[c], input[c][i]),
                          old |-> FALSE]
    /\ UNCHANGED <<indexerVars, hashVars, selectVars, raceVars, raised>>

InsertAt(seq, i, x) == SubSeq(seq, 1, i - 1) \o <<x>> \o SubSeq(seq, i, Len(seq))

\* the call is repeated on the same mapping
CallAgain ==
    \E th \in ThresholdPairs : Call(categories, th[1], th[2])

\* the call is made on a superset: one more item in a category
CallWithItem ==
    \E th \in ThresholdPairs, c \in DOMAIN categories, name \in ItemNames :
        \E i \in 1..(Len(categories[c]) + 1) :
            /\ TotalItems(categories, DOMAIN categories) < MaxItems
            /\ Call([categories EXCEPT ![c] = InsertAt(@, i, name)],
                    th[1], th[2])

\* the call is made on a superset: one more category
CallWithCategory ==
    \E th \in ThresholdPairs, c \in CategoryLabels \ DOMAIN categories :
        Call([x \in DOMAIN categories \cup {c} |->
                 IF x = c THEN <<>> ELSE categories[x]], th[1], th[2])

\* the call is made with two neighbouring items of a category exchanged
CallReordered ==
    \E th \in ThresholdPairs, c \in DOMAIN categories :
        \E i \in 1..(Len(categories[c]) - 1) :
            /\ categories[c][i] # categories[c][i + 1]
            /\ Call([categories EXCEPT
                        ![c] = [@ EXCEPT ![i] = categories[c][i + 1],
                                         ![i + 1] = categories[c][i]]],
                    th[1], th[2])

InitSplit == IndexerIdle /\ SplitIdle /\ HashIdle /\ SelectIdle /\ RaceIdle

NextSplit == CallAgain \/ CallWithItem \/ CallWithCategory \/ CallReordered

SpecSplit == InitSplit /\ [][NextSplit]_vars

\* ------------------------------------------------------------------------
\* Calls of train_valid_test_split on labels that hold the tag themselves
\* ------------------------------------------------------------------------
\* the labels tried: those above and the label k_nohash_z
KeyLabels == CategoryLabels \cup {<<"k">> \o NoHashTag \o <<"z">>}

\* the lists of at most n item names
NameLists(n) == UNION {[1..k -> ItemNames] : k \in 0..n}

\* the mappings of at most MaxItems items
KeyInputs ==
    {cats \in UNION {[ls -> NameLists(MaxItems)] : ls \in SUBSET KeyLabels} :
        TotalItems(cats, DOMAIN cats) <= MaxItems}

InitKey == IndexerIdle /\ SplitIdle /\ HashIdle /\ SelectIdle /\ RaceIdle

\* one call per run
CallLabelled ==
    /\ categories = <<>>
    /\ validation_percentage = 0
    /\ \E th \in ThresholdPairs, input \in KeyInputs :
          Call(input, th[1], th[2])

NextKey == CallLabelled

SpecKey == InitKey /\ [][NextKey]_vars

\* ------------------------------------------------------------------------
\* select_split
\* ------------------------------------------------------------------------
\* A dictionary is the sequence of its entries [key, value] in insertion
\* order.  The value of an entry of data_cat_split is a dictionary from
\* splits to lists, kept as a function; a list is an object of the heap,
\* named by its position there.

\* variant: every key is given one and the same new list
NewData_shared(hp, d) ==
    [i \in 1..Len(d) |-> [key |-> d[i].key, value |-> Len(hp) + 1]]

\* data = {k: [] for k in data_cat_split.keys()}: the entries of data, each
\* with a new list, the lists being allocated after those of the heap hp
NewData(hp, d) ==
    [i \in 1..Len(d) |-> [key |-> d[i].key, value |-> Len(hp) + i]]

\* data[k]
Lookup(dict, k) ==
    dict[CHOOSE j \in 1..Len(dict) : dict[j].key = k].value

RECURSIVE CategoryLoop_lenient(_, _, _, _, _)
\* variant: a category without the split is passed over
CategoryLoop_lenient(hp, d, split, out, i) ==
    IF i > Len(d) THEN [heap |-> hp, data |-> out, raised |-> NoError]
    ELSE IF split \notin DOMAIN d[i].value
         THEN CategoryLoop_lenient(hp, d, split, out, i + 1)
         ELSE CategoryLoop_lenient(
                  [hp EXCEPT ![Lookup(out, d[i].key)] =
                                 @ \o hp[d[i].value[split]]],
                  d, split, out, i + 1)

RECURSIVE CategoryLoop(_, _, _, _, _)
\* for k, v in data_cat_split.items(), from entry i on: every item of
\* v[split] is appended to data[k]; v[split] raises KeyError when v has no
\* such key, and the lists made for data are dropped with the frame
CategoryLoop(hp, d, split, out, i) ==
    IF i > Len(d) THEN [heap |-> hp, data |-> out, raised |-> NoError]
    ELSE IF split \notin DOMAIN d[i].value
         THEN [heap |-> SubSeq(hp, 1, Len(hp) - Len(d)), data |-> <<>>,
               raised |-> KeyError]
         ELSE CategoryLoop(
                  [hp EXCEPT ![Lookup(out, d[i].key)] =
                                 @ \o hp[d[i].value[split]]],
                  d, split, out, i + 1)

\* select_split(data_cat_split, split) on a heap: the heap after the call,
\* the returned dictionary and the exception raised, if any (verbose only
\* prints)
select_split(hp, d, split) ==
    CategoryLoop(hp \o [i \in 1..Len(d) |-> <<>>], d, split, NewData(hp, d), 1)

\* the orders of the category keys, the lists and the inner dictionaries
\* tried: any of the splits may be missing from a category
KeyOrders ==
    {<<>>} \cup {<<c>> : c \in CategoryLabels}
        \cup {ks \in CategoryLabels \X CategoryLabels : ks[1] # ks[2]}
SelectLists ==
    {<<>>,
     << <<"a", ".", "p", "n", "g">> >>,
     << <<"a", ".", "p", "n", "g">>, <<"x">> \o NoHashTag \o <<"1">> >>,
     << <<"x">> \o NoHashTag \o <<"1">>, <<"a", ".", "p", "n", "g">> >>}
InnerDicts ==
    UNION {[held -> 1..Cardinality(SelectLists)] : held \in SUBSET Split}

\* the position of a split among the lists of one category
SplitSlot(k) == IF k = Training THEN 1 ELSE IF k = Validation THEN 2 ELSE 3

\* the caller holds a per-category, per-split mapping of lists
InitSelect ==
    /\ IndexerIdle /\ SplitIdle /\ HashIdle /\ RaceIdle
    /\ requested = None
    /\ data = <<>>
    /\ \E keys \in KeyOrders : \E inner \in [1..Len(keys) -> InnerDicts] :
          LET lists == CHOOSE f \in [1..Cardinality(SelectLists) -> SelectLists] :
                           \A i, j \in DOMAIN f : f[i] = f[j] => i = j
          IN  /\ heap = [id \in 1..(3 * Len(keys)) |->
                            LET i == ((id - 1) \div 3) + 1
                                k == CHOOSE x \in Split :
                                         SplitSlot(x) = ((id - 1) % 3) + 1
                            IN  IF k \in DOMAIN inner[i]
                                THEN lists[inner[i][k]] ELSE <<>>]
              /\ data_cat_split =
                     [i \in 1..Len(keys) |->
                         [key |-> keys[i],
                          value |-> [k \in DOMAIN inner[i] |->
                                        3 * (i - 1) + SplitSlot(k)]]]

\* data = select_split(data_cat_split, split); data is not assigned when the
\* call raises
SelectSplit(split) ==
    /\ requested = None
    /\ LET r == select_split(heap, data_cat_split, split)
       IN  /\ heap' = r.heap
           /\ requested' = split
           /\ raised' = r.raised
           /\ data' = IF r.raised = NoError THEN r.data ELSE data
    /\ UNCHANGED <<data_cat_split, indexerVars, splitVars, hashVars, raceVars>>

CallSelectSplit == \E split \in Split : SelectSplit(split)

NextSelect == CallSelectSplit

SpecSelect == InitSelect /\ [][NextSelect]_vars

\* ------------------------------------------------------------------------
\* The percentage and the split of one digest
\* ------------------------------------------------------------------------
\* digests whose low 63 bits start with any HashHighBits bits and go on with
\* zeros or with ones; the high bits are ones
DigestInputs ==
    {[i \in 1..DigestBits |->
         IF i <= DigestBits - WordBits THEN 1
         ELSE IF i <= DigestBits - WordBits + HashHighBits
              THEN (k \div (2 ^ (DigestBits - WordBits + HashHighBits - i))) % 2
              ELSE fill] :
        k \in 0..(2 ^ HashHighBits - 1), fill \in {0, 1}}
ThresholdGrid == {0, 15, 30, 50, 85, 100}

\* the body of the item loop for an item whose key has digest d
Classify(d, validation, testing) ==
    /\ assigned = None
    /\ digest' = d
    /\ validation_percentage' = validation
    /\ testing_percentage' = testing
    /\ percentage_hash' = PercentageHash(d)
    /\ assigned' = SplitOf(PercentageHash(d), validation, testing)
    /\ UNCHANGED <<indexerVars, categories, result, obs, selectVars,
                   raceVars, raised>>

ClassifyAny ==
    \E d \in DigestInputs, validation \in ThresholdGrid,
       testing \in ThresholdGrid : Classify(d, validation, testing)

InitHash == IndexerIdle /\ SplitIdle /\ HashIdle /\ SelectIdle /\ RaceIdle

NextHash == ClassifyAny

SpecHash == InitHash /\ [][NextHash]_vars

\* ------------------------------------------------------------------------
\* numpy.random: the process-wide generator
\* ------------------------------------------------------------------------
\* seeds tried by the callers, and the weights of the shuffled objects
Seeds == {0, 1}
IndexerWeights == {0, 1, 2}

\* numpy.random.seed(seed): the state becomes a function of the seed alone
RngSeed(seed) == (3 * seed + 1) % RngMod

\* one step of the generator
RngNext(state) == (5 * state + 3) % RngMod

Swap(arr, i, j) == [arr EXCEPT ![i] = arr[j], ![j] = arr[i]]

RECURSIVE Shuffle(_, _, _)
\* numpy's shuffle: for i = n-1 down to 1, swap arr[i] and arr[j] for a
\* drawn j in 0..i (arr is indexed from 1 here, holding 0..n-1)
Shuffle(arr, i, state) ==
    IF i < 1 THEN [perm |-> arr, state |-> state]
    ELSE LET drawn == RngNext(state)
         IN  Shuffle(Swap(arr, i + 1, (drawn % (i + 1)) + 1), i - 1, drawn)

\* the shuffle of 0..n-1 from every generator state, for the lengths of the
\* model, computed once
PermutationTable ==
    [n \in 0..MaxTotal, state \in 0..(RngMod - 1) |->
        Shuffle([k \in 1..n |-> k - 1], n - 1, state)] @@ <<>>

\* numpy.random.permutation(n).tolist() from a generator state: the
\* permutation of 0..n-1 and the state the generator is left in
Permutation(n, state) == PermutationTable[n, state]

\* ------------------------------------------------------------------------
\* list slicing
\* ------------------------------------------------------------------------
\* Python's normalisation of a slice bound for a list of length n
SliceBound(i, n) ==
    IF i < 0 THEN (IF i + n < 0 THEN 0 ELSE i + n)
    ELSE (IF i > n THEN n ELSE i)

\* ind[start:stop], ind[:stop] and ind[start:]
SliceBetween(ind, start, stop) ==
    SubSeq(ind, SliceBound(start, Len(ind)) + 1, SliceBound(stop, Len(ind)))
SliceTo(ind, stop) == SliceBetween(ind, 0, stop)
SliceFrom(ind, start) == SubSeq(ind, SliceBound(start, Len(ind)) + 1, Len(ind))

\* ------------------------------------------------------------------------
\* SplitIndexer methods
\* ------------------------------------------------------------------------
\* variant: the training slice is one element too long
select_train_indices_long(self, ind) == SliceTo(ind, self.training_num + 1)

select_train_indices(self, ind) == SliceTo(ind, self.training_num)

\* variant: the validation slice holds exactly validation_num elements
select_validation_indices_counted(self, ind) ==
    IF self.validation_num # 0
    THEN SliceBetween(ind, self.training_num,
                      self.training_num + self.validation_num)
    ELSE <<>>

select_validation_indices(self, ind) ==
    IF self.validation_num # 0
    THEN IF self.testing_num # 0
         THEN SliceBetween(ind, self.training_num, 0 - self.testing_num)
         ELSE SliceFrom(ind, self.training_num)
    ELSE <<>>

\* variant: the testing slice starts one element early
select_testing_indices_early(self, ind) ==
    IF self.testing_num # 0
    THEN SliceFrom(ind, 0 - self.testing_num - 1)
    ELSE <<>>

select_testing_indices(self, ind) ==
    IF self.testing_num # 0
    THEN SliceFrom(ind, 0 - self.testing_num)
    ELSE <<>>

\* self.shuffled_indices() from a generator state: the returned dictionary
\* and the state the generator is left in
shuffled_indices(self, state) ==
    LET drawn == Permutation(self.total_num, state)
    IN  [value |-> [k \in Split |->
                      IF k = Training
                      THEN select_train_indices(self, drawn.perm)
                      ELSE IF k = Validation
                           THEN select_validation_indices(self, drawn.perm)
                           ELSE select_testing_indices(self, drawn.perm)],
         state |-> drawn.state]

\* split arguments that are neither a member of Split nor None: the string
\* 'training', which is not equal to the member Split.Training
Unrecognised == {"'training'"}

\* the if / elif chain on split, and the raise that ends it
Dispatch(self, split, split_indices) ==
    IF split = Training
    THEN [value |-> select_train_indices(self, split_indices),
          raised |-> NoError]
    ELSE IF split = Validation
    THEN [value |-> select_validation_indices(self, split_indices),
          raised |-> NoError]
    ELSE IF split = Testing
    THEN [value |-> select_testing_indices(self, split_indices),
          raised |-> NoError]
    ELSE IF split = None
    THEN [value |-> split_indices, raised |-> NoError]
    ELSE [value |-> <<>>, raised |-> NotImplementedError]

\* variant: the generator is not re-seeded before the permutation is drawn
select_shuffled_split_indices_unseeded(self, split, seed, state) ==
    LET drawn == Permutation(self.total_num, state)
        out   == Dispatch(self, split, drawn.perm)
    IN  [value |-> out.value, raised |-> out.raised, state |-> drawn.state]

\* variant: a split that is not recognised is taken for None
select_shuffled_split_indices_lenient(self, split, seed, state) ==
    LET drawn == Permutation(self.total_num, RngSeed(seed))
        out   == Dispatch(self, IF split \in Split THEN split ELSE None,
                          drawn.perm)
    IN  [value |-> out.value, raised |-> out.raised, state |-> drawn.state]

\* variant: the split is looked at before the generator is touched
select_shuffled_split_indices_guarded(self, split, seed, state) ==
    LET drawn == Permutation(self.total_num, RngSeed(seed))
        out   == Dispatch(self, split, drawn.perm)
    IN  [value |-> out.value, raised |-> out.raised,
         state |-> IF out.raised = NoError THEN drawn.state ELSE state]

\* self.select_shuffled_split_indices(split, seed) from a generator state:
\* the returned list, the exception raised if any, and the state the
\* generator is left in
select_shuffled_split_indices(self, split, seed, state) ==
    LET drawn == Permutation(self.total_num, RngSeed(seed))
        out   == Dispatch(self, split, drawn.perm)
    IN  [value |-> out.value, raised |-> out.raised, state |-> drawn.state]

\* the other SplitIndexer objects of the process; they share the generator,
\* and what they draw from it depends on their length only
OtherIndexers == {SplitIndexerInit(n, 1, 1, 1) : n \in 0..MaxTotal}

\* a call disturbs the kept call when it is not a repetition of it
Disturb(call) ==
    IF ref.op = "none" THEN ref
    ELSE IF call.own /\ call.op = ref.op /\ call.split = ref.split
            /\ call.seed = ref.seed
         THEN ref
         ELSE [ref EXCEPT !.disturbed = TRUE]

\* the seed of the call made directly before, when that was a seeded call on
\* the object (a set of at most one seed)
SeedBefore ==
    IF last.op = "select" /\ last.own THEN {last.seed} ELSE {}

\* indexer.shuffled_indices()
ShuffledIndices ==
    /\ indexer # NoObject
    /\ LET r    == shuffled_indices(indexer, rng)
           call == [op |-> "shuffled", own |-> TRUE, split |-> None,
                    seed |-> 0, again |-> FALSE, after |-> SeedBefore]
       IN  /\ rng' = r.state
           /\ ret' = r.value
           /\ raised' = NoError
           /\ last' = call
           /\ ref' = Disturb(call)
    /\ UNCHANGED <<indexer, args, splitVars, hashVars, selectVars, raceVars>>

\* indexer.select_shuffled_split_indices(split, seed); a call that returned
\* may be the one that is kept for comparison with later calls
SelectShuffledSplitIndices(split, seed) ==
    /\ indexer # NoObject
    /\ LET r    == select_shuffled_split_indices(indexer, split, seed, rng)
           call == [op |-> "select", own |-> TRUE, split |-> split,
                    seed |-> seed,
                    again |-> /\ ref.op = "select" /\ ref.split = split
                              /\ ref.seed = seed]
       IN  /\ rng' = r.state
           /\ ret' = r.value
           /\ raised' = r.raised
           /\ last' = call
           /\ \/ ref' = Disturb(call)
              \/ /\ ref = NoRef
                 /\ r.raised = NoError
                 /\ ref' = [op |-> "select", split |-> split, seed |-> seed,
                            ret |-> r.value, disturbed |-> FALSE]
    /\ UNCHANGED <<indexer, args, splitVars, hashVars, selectVars, raceVars>>

\* other.shuffled_indices() on another object
OtherShuffledIndices(other) ==
    /\ LET r    == shuffled_indices(other, rng)
           call == [op |-> "shuffled", own |-> FALSE, split |-> None,
                    seed |-> 0, again |-> FALSE]
       IN  /\ rng' = r.state
           /\ ret' = r.value
           /\ raised' = NoError
           /\ last' = call
           /\ ref' = Disturb(call)
    /\ UNCHANGED <<indexer, args, splitVars, hashVars, selectVars, raceVars>>

\* other.select_shuffled_split_indices(split, seed) on another object
OtherSelectShuffledSplitIndices(other, split, seed) ==
    /\ LET r    == select_shuffled_split_indices(other, split, seed, rng)
           call == [op |-> "select", own |-> FALSE, split |-> split,
                    seed |-> seed, again |-> FALSE]
       IN  /\ rng' = r.state
           /\ ret' = r.value
           /\ raised' = r.raised
           /\ last' = call
           /\ ref' = Disturb(call)
    /\ UNCHANGED <<indexer, args, splitVars, hashVars, selectVars, raceVars>>

\* ------------------------------------------------------------------------
\* Specification of the shuffling methods
\* ------------------------------------------------------------------------
\* the generator starts in whatever state the process seeded it with
InitIndexer ==
    /\ rng \in 0..(RngMod - 1)
    /\ indexer = NoObject
    /\ args = NoArgs
    /\ last = NoCall
    /\ ret = <<>>
    /\ ref = NoRef
    /\ raised = NoError
    /\ SplitIdle
    /\ HashIdle
    /\ SelectIdle
    /\ RaceIdle

ConstructIndexer ==
    \E n \in 0..MaxTotal, tr \in IndexerWeights, va \in IndexerWeights,
       te \in IndexerWeights : Construct(n, tr, va, te)

CallSelect ==
    \E split \in Split \cup {None} \cup Unrecognised, seed \in Seeds :
        SelectShuffledSplitIndices(split, seed)

OtherCallShuffled == \E other \in OtherIndexers : OtherShuffledIndices(other)

OtherCallSelect ==
    \E other \in OtherIndexers, split \in Split \cup {None}, seed \in Seeds :
        OtherSelectShuffledSplitIndices(other, split, seed)

NextIndexer ==
    \/ ConstructIndexer
    \/ ShuffledIndices
    \/ CallSelect
    \/ OtherCallShuffled
    \/ OtherCallSelect

SpecIndexer == InitIndexer /\ [][NextIndexer]_vars

\* ------------------------------------------------------------------------
\* Two threads calling select_shuffled_split_indices on one object
\* ------------------------------------------------------------------------
\* A thread can be suspended between any two statements of the method: the
\* call of numpy.random.seed and the call of numpy.random.permutation are
\* two steps on the one generator of the process.  What follows the
\* permutation works on local values only and is part of the second step.

\* variant: the generator is left as it is
Reseeded_kept(state, seed) == state

\* numpy.random.seed(seed) on the generator
Reseeded(state, seed) == RngSeed(seed)

\* the callers, other than c, that have seeded the generator and not drawn
\* from it yet find it changed
Intrude(c) ==
    [o \in Callers |->
        IF o # c /\ pc[o] = "seeded"
        THEN [frame[o] EXCEPT !.intruded = TRUE] ELSE frame[o]]

\* caller c enters indexer.select_shuffled_split_indices(split, seed) and
\* executes numpy.random.seed(seed)
Reseed(c, split, seed) ==
    /\ pc[c] = "idle"
    /\ rng' = Reseeded(rng, seed)
    /\ pc' = [pc EXCEPT ![c] = "seeded"]
    /\ frame' = [Intrude(c) EXCEPT
                    ![c] = [split |-> split, seed |-> seed, value |-> <<>>,
                            intruded |-> FALSE]]
    /\ UNCHANGED <<indexer, args, last, ret, ref, raised, splitVars, hashVars,
                   selectVars>>

\* caller c draws the permutation and returns its slice of it
Permute(c) ==
    /\ pc[c] = "seeded"
    /\ LET drawn == Permutation(indexer.total_num, rng)
       IN  /\ rng' = drawn.state
           /\ frame' = [Intrude(c) EXCEPT
                           ![c].value = Dispatch(indexer, frame[c].split,
                                                 drawn.perm).value]
    /\ pc' = [pc EXCEPT ![c] = "done"]
    /\ UNCHANGED <<indexer, args, last, ret, ref, raised, splitVars, hashVars,
                   selectVars>>

\* caller c is done with the returned value and may call again
Finish(c) ==
    /\ pc[c] = "done"
    /\ pc' = [pc EXCEPT ![c] = "idle"]
    /\ frame' = [frame EXCEPT ![c] = NoFrame]
    /\ UNCHANGED <<indexerVars, raised, splitVars, hashVars, selectVars>>

\* the object was constructed before the threads were started; the generator
\* is in whatever state the process left it in
InitRace ==
    /\ rng \in 0..(RngMod - 1)
    /\ \E n \in 0..MaxTotal :
          /\ indexer = SplitIndexerInit(n, 1, 1, 1)
          /\ args = [dataset_length |-> n, training |-> 1, validation |-> 1,
                     testing |-> 1]
    /\ last = NoCall
    /\ ret = <<>>
    /\ ref = NoRef
    /\ raised = NoError
    /\ SplitIdle /\ HashIdle /\ SelectIdle /\ RaceIdle

CallerReseeds ==
    \E c \in Callers, split \in Split \cup {None}, seed \in Seeds :
        Reseed(c, split, seed)

CallerPermutes == \E c \in Callers : Permute(c)

CallerFinishes == \E c \in Callers : Finish(c)

NextRace == CallerReseeds \/ CallerPermutes \/ CallerFinishes

SpecRace == InitRace /\ [][NextRace]_vars

\* ------------------------------------------------------------------------
\* Specification of the constructor alone, over a wide range of arguments
\* ------------------------------------------------------------------------
InitCounts == IndexerIdle /\ SplitIdle /\ HashIdle /\ SelectIdle /\ RaceIdle

ConstructAny ==
    \E n \in 0..MaxLen, tr \in 0..MaxWeight, va \in 0..MaxWeight,
       te \in 0..MaxWeight : Construct(n, tr, va, te)

NextCounts == ConstructAny

SpecCounts == InitCounts /\ [][NextCounts]_vars

\* ------------------------------------------------------------------------
\* Specification of the constructor, the all-zero weights included
\* ------------------------------------------------------------------------
InitWeights == IndexerIdle /\ SplitIdle /\ HashIdle /\ SelectIdle /\ RaceIdle

ConstructZero == \E n \in 0..MaxLen : ConstructZeroWeights(n)

NextWeights == ConstructAny \/ ConstructZero

SpecWeights == InitWeights /\ [][NextWeights]_vars

\* ------------------------------------------------------------------------
\* C1
\* ------------------------------------------------------------------------
\* the sum of the three counts of the object
CountsSum == indexer.training_num + indexer.validation_num + indexer.testing_num

\* floor(weight / (sum of the weights) * n) in exact arithmetic
ExactCount(w) ==
    (w * args.dataset_length)
        \div (args.training + args.validation + args.testing)

\* C1: for every dataset length n >= 0 and every three non-negative weights
\* not all zero, the counts of the constructed SplitIndexer sum to at most n
\* and each count equals floor(weight_i / (sum of the weights) * n).
CountsAreExactFloors ==
    indexer # NoObject =>
        /\ CountsSum <= args.dataset_length
        /\ indexer.training_num = ExactCount(args.training)
        /\ indexer.validation_num = ExactCount(args.validation)
        /\ indexer.testing_num = ExactCount(args.testing)

\* ------------------------------------------------------------------------
\* C2
\* ------------------------------------------------------------------------
\* C2: a call of select_shuffled_split_indices(split, seed) on the object
\* returns the same sequence as the kept earlier call with the same split and
\* seed, whatever calls on this or other objects were made in between.
SeededCallRepeats ==
    (last.op = "select" /\ last.own /\ last.again) => ret = ref.ret

\* a seeded call repeated after other calls disturbed the generator, with a
\* result long enough to differ
SeededCallRepeatsWitness ==
    /\ last.op = "select" /\ last.own /\ last.again
    /\ ref.disturbed
    /\ Len(ret) >= 2

\* ------------------------------------------------------------------------
\* C3
\* ------------------------------------------------------------------------
\* the permutations of 0..n-1, as sequences
PermutationsOf(n) ==
    {p \in [1..n -> 0..(n - 1)] : \A i, j \in 1..n : p[i] = p[j] => i = j}

\* b is a run of consecutive elements of p, in order
IsBlock(b, p) ==
    \E off \in 0..Len(p) :
        /\ off + Len(b) <= Len(p)
        /\ \A i \in 1..Len(b) : b[i] = p[off + i]

\* C3: the three sequences returned by one call of shuffled_indices are
\* pairwise disjoint, and each is a contiguous block, in order, of one and
\* the same permutation of 0..n-1.
ShuffledSlicesDisjointBlocks ==
    (last.op = "shuffled" /\ last.own) =>
        /\ \A k1, k2 \in Split :
              k1 # k2 => Elements(ret[k1]) \cap Elements(ret[k2]) = {}
        /\ \E p \in PermutationsOf(indexer.total_num) :
              \A k \in Split : IsBlock(ret[k], p)

\* a call of shuffled_indices that returned three non-empty slices
ShuffledSlicesWitness ==
    /\ last.op = "shuffled" /\ last.own
    /\ \A k \in Split : Len(ret[k]) >= 1

\* ------------------------------------------------------------------------
\* C4
\* ------------------------------------------------------------------------
\* flooring left a remainder
HasRemainder == CountsSum < indexer.total_num

\* C4 as stated: when flooring leaves a remainder, the three slices of
\* shuffled_indices together hold exactly training_num + validation_num +
\* testing_num indices, each slice holding exactly its split's count.
RemainderUnassigned ==
    (last.op = "shuffled" /\ last.own /\ HasRemainder) =>
        /\ Len(ret[Training]) + Len(ret[Validation]) + Len(ret[Testing])
              = CountsSum
        /\ Len(ret[Training]) = indexer.training_num
        /\ Len(ret[Validation]) = indexer.validation_num
        /\ Len(ret[Testing]) = indexer.testing_num

\* C4 amended: when flooring leaves a remainder, the Training and Testing
\* slices hold exactly training_num and testing_num indices; the Validation
\* slice is empty when validation_num = 0 (the leftover is then assigned to
\* no split) and otherwise holds total_num - training_num - testing_num
\* indices, that is its own count and the whole leftover.
RemainderGoesToValidation ==
    (last.op = "shuffled" /\ last.own /\ HasRemainder) =>
        /\ Len(ret[Training]) = indexer.training_num
        /\ Len(ret[Testing]) = indexer.testing_num
        /\ Len(ret[Validation]) =
              IF indexer.validation_num = 0 THEN 0
              ELSE indexer.total_num - indexer.training_num
                       - indexer.testing_num

\* a shuffled_indices call with a remainder and a non-zero validation count
RemainderWitness ==
    /\ last.op = "shuffled" /\ last.own /\ HasRemainder
    /\ indexer.validation_num > 0
    /\ Len(ret[Validation]) > indexer.validation_num

\* ------------------------------------------------------------------------
\* C5
\* ------------------------------------------------------------------------
IsPermutation(p, n) == Len(p) = n /\ Elements(p) = 0..(n - 1)

\* the block of a permutation that the slicing rule gives to a split
BlockOf(split, p) ==
    IF split = Training THEN SubSeq(p, 1, indexer.training_num)
    ELSE IF split = Validation
         THEN IF indexer.validation_num > 0
              THEN SubSeq(p, indexer.training_num + 1,
                          indexer.total_num - indexer.testing_num)
              ELSE <<>>
    ELSE IF split = Testing
         THEN IF indexer.testing_num > 0
              THEN SubSeq(p, indexer.total_num - indexer.testing_num + 1,
                          indexer.total_num)
              ELSE <<>>
    ELSE p

\* the last call and the kept call are seeded calls on the object with the
\* same seed
SameSeedPair ==
    /\ last.op = "select" /\ last.own /\ raised = NoError
    /\ ref.op = "select" /\ ref.seed = last.seed

\* C5: select_shuffled_split_indices(None, s) returns a full permutation of
\* 0..n-1, and the calls with Training, Validation and Testing and the same
\* seed return the blocks of that permutation given by the slicing rule;
\* the blocks of two different splits are disjoint.
SeededSplitsAreBlocks ==
    SameSeedPair =>
        /\ ref.split = None =>
              /\ IsPermutation(ref.ret, indexer.total_num)
              /\ ret = BlockOf(last.split, ref.ret)
        /\ last.split = None =>
              /\ IsPermutation(ret, indexer.total_num)
              /\ ref.ret = BlockOf(ref.split, ret)
        /\ (ref.split # None /\ last.split # None /\ ref.split # last.split)
              => Elements(ret) \cap Elements(ref.ret) = {}

\* the full permutation was kept, other calls followed, and a later call
\* with the same seed returned a non-empty Validation block
SeededSplitsWitness ==
    /\ SameSeedPair
    /\ ref.split = None /\ ref.disturbed
    /\ last.split = Validation
    /\ Len(ret) >= 1 /\ indexer.testing_num >= 1

\* ------------------------------------------------------------------------
\* C6
\* ------------------------------------------------------------------------
\* the items of the current call that have the kept item's category and
\* stripped name
SameAsObserved(i) ==
    /\ obs.c \in DOMAIN categories
    /\ i \in 1..Len(categories[obs.c])
    /\ ReSubNoHash(categories[obs.c][i]) = obs.stripped

\* C6: the split of an item depends only on its category label, its name
\* with the _nohash_ suffix stripped and the two percentages: whatever call
\* an item was seen in, an item with the same category and stripped name is
\* given the same split by every later call with the same percentages, be
\* the call repeated, its items reordered or further items added.
ObservedItemKeepsSplit ==
    (/\ obs.kept
     /\ validation_percentage = obs.validation
     /\ testing_percentage = obs.testing) =>
        \A i \in 1..MaxItems + 1 : SameAsObserved(i) =>
            \A k \in Split :
                (categories[obs.c][i] \in Elements(result[obs.c][k]))
                    <=> (k = obs.split)

\* an item kept from an earlier call is found again, not in first place, in
\* a later call with the same percentages
ObservedItemWitness ==
    /\ obs.kept /\ obs.old
    /\ validation_percentage = obs.validation
    /\ testing_percentage = obs.testing
    /\ \E i \in 2..MaxItems : SameAsObserved(i)

\* ------------------------------------------------------------------------
\* C7
\* ------------------------------------------------------------------------
\* the name has the form x_nohash_<suffix>, and its x
TagAt(name, i) ==
    /\ i + Len(NoHashTag) - 1 <= Len(name)
    /\ SubSeq(name, i, i + Len(NoHashTag) - 1) = NoHashTag
HasTag(name) == \E i \in 1..Len(name) : TagAt(name, i)
BaseOf(name) ==
    SubSeq(name, 1,
           (CHOOSE i \in 1..Len(name) :
               TagAt(name, i) /\ \A j \in 1..(i - 1) : ~TagAt(name, j)) - 1)

\* C7: two items x_nohash_<s1> and x_nohash_<s2> of one category, for any
\* two suffixes, are given the same split (being hashed from the same key).
SuffixVariantsShareSplit ==
    \A c \in DOMAIN categories : \A i, j \in 1..Len(categories[c]) :
        (/\ HasTag(categories[c][i]) /\ HasTag(categories[c][j])
         /\ BaseOf(categories[c][i]) = BaseOf(categories[c][j])) =>
            ListOf(result[c], categories[c][i])
                = ListOf(result[c], categories[c][j])

\* ------------------------------------------------------------------------
\* C8
\* ------------------------------------------------------------------------
Cats == <<"c", "a", "t", "s">>
PlainName == <<"a", ".", "p", "n", "g">>
SuffixedName == <<"a">> \o NoHashTag \o <<"1", ".", "p", "n", "g">>

\* category c of the current call holds both a.png and a_nohash_1.png
HoldsBoth(c) ==
    /\ c \in DOMAIN categories
    /\ PlainName \in Elements(categories[c])
    /\ SuffixedName \in Elements(categories[c])

\* C8 as stated: a.png and a_nohash_1.png of one category are given the same
\* split.
PlainAndSuffixedShareSplit ==
    \A c \in DOMAIN categories : HoldsBoth(c) =>
        ListOf(result[c], PlainName) = ListOf(result[c], SuffixedName)

\* C8 amended: a.png and a_nohash_1.png are hashed from different keys (the
\* label followed by a.png, and the label followed by a); in the call of the
\* example, category cats with validation_percentage 15 and
\* testing_percentage 0, both are nevertheless given the same split,
\* Training.
ExampleCallSharesSplit ==
    (HoldsBoth(Cats) /\ validation_percentage = 15 /\ testing_percentage = 0)
        => /\ b_rep(Cats, PlainName) # b_rep(Cats, SuffixedName)
           /\ PlainName \in Elements(result[Cats][Training])
           /\ SuffixedName \in Elements(result[Cats][Training])

\* the call of the example was made
ExampleCallWitness ==
    /\ HoldsBoth(Cats) /\ validation_percentage = 15 /\ testing_percentage = 0
    /\ Len(result[Cats][Training]) = 2

\* ------------------------------------------------------------------------
\* C9
\* ------------------------------------------------------------------------
\* C9: an item is given Testing if its percentage is below
\* testing_percentage, otherwise Validation if it is below
\* validation_percentage + testing_percentage, otherwise Training.
SequentialRule ==
    assigned # None =>
        assigned =
            IF FLessInt(percentage_hash, testing_percentage) THEN Testing
            ELSE IF FLessInt(percentage_hash,
                             validation_percentage + testing_percentage)
                 THEN Validation
                 ELSE Training

\* a digest below the testing percentage, with a validation percentage set
SequentialRuleWitness ==
    /\ assigned = Testing
    /\ validation_percentage > 0
    /\ FFloor(percentage_hash) > 0

\* ------------------------------------------------------------------------
\* C10
\* ------------------------------------------------------------------------
RECURSIVE IsMerge(_, _, _, _)
\* whole is an interleaving of the sequences a, b and d, each in its order
IsMerge(whole, a, b, d) ==
    IF whole = <<>> THEN a = <<>> /\ b = <<>> /\ d = <<>>
    ELSE \/ a # <<>> /\ Head(a) = Head(whole)
            /\ IsMerge(Tail(whole), Tail(a), b, d)
         \/ b # <<>> /\ Head(b) = Head(whole)
            /\ IsMerge(Tail(whole), a, Tail(b), d)
         \/ d # <<>> /\ Head(d) = Head(whole)
            /\ IsMerge(Tail(whole), a, b, Tail(d))

\* C10: the result has exactly the category keys of the input, each mapped
\* to the three Split keys; the three lists of a category hold every
\* occurrence of its input items exactly once, in input order.
ResultPartitionsInput ==
    /\ DOMAIN result = DOMAIN categories
    /\ \A c \in DOMAIN result :
          /\ DOMAIN result[c] = Split
          /\ IsMerge(categories[c], result[c][Training],
                     result[c][Validation], result[c][Testing])

\* a call on two categories, one of them with two different items that went
\* to the same list
ResultPartitionsWitness ==
    /\ Cardinality(DOMAIN categories) = 2
    /\ \E c \in DOMAIN categories, k \in Split :
          /\ Len(result[c][k]) = 2
          /\ result[c][k][1] # result[c][k][2]

\* ------------------------------------------------------------------------
\* C11
\* ------------------------------------------------------------------------
\* every category of the mapping d holds the split
HeldByAll(d, split) == \A i \in 1..Len(d) : split \in DOMAIN d[i].value

\* C11: when every category of the input holds the requested split,
\* select_split returns a mapping with exactly the keys of the input, in
\* their order, each mapped to the items of that category's list of the
\* split, in order (no items when the list is empty); the input mapping and
\* every list that existed before the call are unchanged, and the returned
\* lists are new objects, one per category.
SelectSplitProjects ==
    [][(requested' # None /\ HeldByAll(data_cat_split, requested')) =>
          /\ raised' = NoError
          /\ Len(data') = Len(data_cat_split)
          /\ \A i \in 1..Len(data_cat_split) :
                /\ data'[i].key = data_cat_split[i].key
                /\ heap'[data'[i].value] =
                       heap[data_cat_split[i].value[requested']]
                /\ data'[i].value \notin DOMAIN heap
                /\ \A j \in 1..Len(data_cat_split) :
                       data'[i].value = data'[j].value => i = j
          /\ data_cat_split' = data_cat_split
          /\ \A id \in DOMAIN heap : heap'[id] = heap[id]]_vars

\* a call on two categories returned two items for the first and none for
\* the second
SelectSplitWitness ==
    /\ requested # None /\ raised = NoError
    /\ Len(data) = 2
    /\ Len(heap[data[1].value]) = 2
    /\ heap[data[2].value] = <<>>
    /\ Len(heap[data_cat_split[2].value[requested]]) = 0

\* ------------------------------------------------------------------------
\* C12
\* ------------------------------------------------------------------------
\* C12: when the requested split is missing from at least one category,
\* whatever its position, select_split raises KeyError, nothing is returned
\* (not even the lists of the categories gone through before), and the input
\* mapping and its lists are unchanged.
MissingSplitRaises ==
    [][(requested' # None /\ ~HeldByAll(data_cat_split, requested')) =>
          /\ raised' = KeyError
          /\ data' = data
          /\ data_cat_split' = data_cat_split
          /\ heap' = heap]_vars

\* the split is missing from the second category only, after a first
\* category whose two items had been gone through
MissingSplitWitness ==
    /\ requested # None /\ raised = KeyError
    /\ Len(data_cat_split) = 2
    /\ requested \in DOMAIN data_cat_split[1].value
    /\ Len(heap[data_cat_split[1].value[requested]]) = 2
    /\ requested \notin DOMAIN data_cat_split[2].value
    /\ data = <<>>

\* ------------------------------------------------------------------------
\* C13
\* ------------------------------------------------------------------------
\* C13: select_shuffled_split_indices called with a split that is none of
\* Split.Training, Split.Validation, Split.Testing and None raises
\* NotImplementedError and returns no indices; called with one of these
\* four it raises nothing and returns a sequence of indices of the object.
UnrecognisedSplitRaises ==
    (last.op = "select" /\ last.own) =>
        IF last.split \in Split \cup {None}
        THEN /\ raised = NoError
             /\ DOMAIN ret = 1..Len(ret)
             /\ Elements(ret) \subseteq 0..(indexer.total_num - 1)
        ELSE /\ raised = NotImplementedError
             /\ ret = <<>>

\* a call with an unrecognised split on an object of several indices, all
\* three counts of which are positive
UnrecognisedSplitWitness ==
    /\ last.op = "select" /\ last.own
    /\ last.split \in Unrecognised
    /\ raised = NotImplementedError
    /\ indexer.training_num >= 1
    /\ indexer.validation_num >= 1
    /\ indexer.testing_num >= 1

\* ------------------------------------------------------------------------
\* C19
\* ------------------------------------------------------------------------
\* the state the generator is in after it was seeded with seed and a
\* permutation of n indices was drawn
AfterSeeded(seed, n) == Permutation(n, RngSeed(seed)).state

\* C19: every call of select_shuffled_split_indices with seed s on the
\* object of length n, a call that raises on an unrecognised split included,
\* leaves the generator in a state given by s and n alone; a call of
\* shuffled_indices made directly after it returns the three slices given by
\* s and the object alone.
SeededCallFixesGenerator ==
    /\ (last.op = "select" /\ last.own) =>
          rng = AfterSeeded(last.seed, indexer.total_num)
    /\ (last.op = "shuffled" /\ last.own) =>
          \A s \in last.after :
              ret = shuffled_indices(
                        indexer, AfterSeeded(s, indexer.total_num)).value

\* shuffled_indices was called directly after a seeded call and returned
\* three non-empty slices, the generator not being in the state it started in
ShuffledAfterSeededWitness ==
    /\ last.op = "shuffled" /\ last.own
    /\ last.after # {}
    /\ \A k \in Split : Len(ret[k]) >= 1

\* ------------------------------------------------------------------------
\* C14
\* ------------------------------------------------------------------------
\* C14: constructing a SplitIndexer with the three weights all zero raises a
\* division-by-zero error, and no object (and no counts) is produced.
ZeroWeightsRaise ==
    (args.training + args.validation + args.testing = 0) =>
        /\ indexer = NoObject
        /\ args.dataset_length > 0 => raised = ZeroDivisionError

\* ------------------------------------------------------------------------
\* C15
\* ------------------------------------------------------------------------
\* C15: for every digest the pseudo-percentage is at least 0 and strictly
\* below 100; so when validation_percentage + testing_percentage = 100 no
\* item is given Training.
PercentageBelowHundred ==
    assigned # None =>
        /\ FFloor(percentage_hash) >= 0
        /\ FLessInt(percentage_hash, Hundred)
        /\ (validation_percentage + testing_percentage = Hundred)
              => assigned # Training

\* ------------------------------------------------------------------------
\* C17
\* ------------------------------------------------------------------------
\* the two percentages of the call exceed 100 together
Oversubscribed == validation_percentage + testing_percentage > Hundred

\* C17 as stated: when validation_percentage + testing_percentage exceeds
\* 100 it is Testing that is starved: an item whose percentage is below
\* testing_percentage is not given Testing.
TestingStarved ==
    (assigned # None /\ Oversubscribed
     /\ FLessInt(percentage_hash, testing_percentage)) => assigned # Testing

\* C17 amended: when validation_percentage + testing_percentage exceeds 100
\* it is Training that is starved: no item is given Training; every item
\* whose percentage is below testing_percentage is given Testing, and every
\* other item Validation.
TrainingStarved ==
    (assigned # None /\ Oversubscribed) =>
        /\ assigned # Training
        /\ assigned = IF FLessInt(percentage_hash, testing_percentage)
                      THEN Testing ELSE Validation

\* with both percentages positive and their sum above 100, an item whose
\* percentage is above validation_percentage was given Testing
TrainingStarvedWitness ==
    /\ Oversubscribed
    /\ validation_percentage > 0
    /\ ~FLessInt(percentage_hash, validation_percentage)
    /\ FLessInt(percentage_hash, testing_percentage)
    /\ assigned = Testing

\* ------------------------------------------------------------------------
\* C16
\* ------------------------------------------------------------------------
\* C16: the key hashed for an item is the whole category label followed by
\* the item's name with its _nohash_ suffix stripped; so two items of one
\* category with different stripped names, and two equally named items of
\* two categories, are hashed from different keys.
KeyIsLabelThenStrippedName ==
    \A c \in DOMAIN categories : \A i \in 1..Len(categories[c]) :
        /\ b_rep(c, categories[c][i]) = c \o ReSubNoHash(categories[c][i])
        /\ \A j \in 1..Len(categories[c]) :
              ReSubNoHash(categories[c][i]) # ReSubNoHash(categories[c][j])
                  => b_rep(c, categories[c][i]) # b_rep(c, categories[c][j])
        /\ \A c2 \in DOMAIN categories \ {c} :
              \A j \in 1..Len(categories[c2]) :
                  categories[c][i] = categories[c2][j]
                      => b_rep(c, categories[c][i])
                             # b_rep(c2, categories[c2][j])

\* ------------------------------------------------------------------------
\* C18
\* ------------------------------------------------------------------------
\* what caller c's call returns when it is made on its own
SequentialValue(c) ==
    select_shuffled_split_indices(indexer, frame[c].split, frame[c].seed,
                                  rng).value

\* C18: a caller of select_shuffled_split_indices whose reseeding and
\* permutation steps had no step of the other caller on the shared generator
\* between them (as in strictly sequential use) receives the sequence its
\* own seed yields in sequential use; a caller that had such a step between
\* them can receive another sequence (the state RaceLosesSeedWitness).
UndisturbedCallerGetsOwnSequence ==
    \A c \in Callers :
        (pc[c] = "done" /\ ~frame[c].intruded) =>
            frame[c].value = SequentialValue(c)

\* the other caller, with a different seed, reseeded the generator between
\* the two steps of a caller, which then received the sequence of the
\* other's seed and not the one its own seed yields
RaceLosesSeedWitness ==
    \E c \in Callers, o \in Callers :
        /\ o # c
        /\ pc[c] = "done" /\ frame[c].intruded
        /\ pc[o] = "seeded" /\ frame[o].seed # frame[c].seed
        /\ frame[c].value # SequentialValue(c)
        /\ frame[c].value =
               select_shuffled_split_indices(indexer, frame[c].split,
                                             frame[o].seed, rng).value

====
